---- MODULE Spec2Model ----
(***************************************************************************)
(* pyproxide: a filtering gateway in front of the PyPI simple index.       *)
(*                                                                         *)
(* The module models                                                       *)
(*   - src/src/pep_440.rs: Version (parse, ordering, equality), Specifier  *)
(*     and SpecifierSet (parse, contains);                                 *)
(*   - src/src/pep_427.rs: the wheel file name pattern;                    *)
(*   - src/src/main.rs:    the routes, forward_upstream and the filter     *)
(*     loop of handle_package_index.                                       *)
(*                                                                         *)
(* Strings of the program are TLA+ strings; a character is a string of     *)
(* length one, read with SubSeq.                                           *)
(***************************************************************************)
EXTENDS Integers, Sequences, FiniteSets, TLC

(***************************************************************************)
(* Bounds of the model.                                                    *)
(***************************************************************************)
\* longest release-segment list of a generated version string
MaxReleaseLen == 3
\* most releases in an upstream package index
MaxReleases == 3
\* most header names in an inbound request
MaxHeaders == 2
\* longest release-segment list of the versions compared three at a time
MaxOrderLen == 2

\* u32::MAX in decimal: u32::from_str fails above it.  It is kept as text
\* since the checker's integers are narrower than 32 unsigned bits.
U32MaxDigits == "4294967295"

(***************************************************************************)
(* Strings.                                                                *)
(***************************************************************************)
Ch(s, i) == IF 1 <= i /\ i <= Len(s) THEN SubSeq(s, i, i) ELSE ""

DigitChars == {"0", "1", "2", "3", "4", "5", "6", "7", "8", "9"}

IsDigit(c) == c \in DigitChars

DigitVal(c) ==
  CASE c = "0" -> 0 [] c = "1" -> 1 [] c = "2" -> 2 [] c = "3" -> 3
    [] c = "4" -> 4 [] c = "5" -> 5 [] c = "6" -> 6 [] c = "7" -> 7
    [] c = "8" -> 8 [] c = "9" -> 9

\* does `lit` occur in s at position i
StartsWithAt(s, i, lit) ==
  /\ i >= 1
  /\ i + Len(lit) - 1 <= Len(s)
  /\ SubSeq(s, i, i + Len(lit) - 1) = lit

\* str::ends_with
EndsWith(s, suffix) ==
  /\ Len(suffix) <= Len(s)
  /\ SubSeq(s, Len(s) - Len(suffix) + 1, Len(s)) = suffix

\* position of the first occurrence of character c in s at or after i; 0 if none
RECURSIVE FindChar(_, _, _)
FindChar(s, c, i) ==
  IF i > Len(s) THEN 0
  ELSE IF Ch(s, i) = c THEN i
  ELSE FindChar(s, c, i + 1)

\* str::split(c), as a sequence of strings
RECURSIVE Split(_, _)
Split(s, c) ==
  LET p == FindChar(s, c, 1)
  IN  IF p = 0 THEN <<s>>
      ELSE <<SubSeq(s, 1, p - 1)>> \o Split(SubSeq(s, p + 1, Len(s)), c)

\* str::trim, for the space character
RECURSIVE Trim(_)
Trim(s) ==
  IF Len(s) > 0 /\ Ch(s, 1) = " " THEN Trim(SubSeq(s, 2, Len(s)))
  ELSE IF Len(s) > 0 /\ Ch(s, Len(s)) = " " THEN Trim(SubSeq(s, 1, Len(s) - 1))
  ELSE s

\* \d+ matched greedily from position i: the position after the last digit
RECURSIVE DigitsEnd(_, _)
DigitsEnd(s, i) == IF IsDigit(Ch(s, i)) THEN DigitsEnd(s, i + 1) ELSE i

\* the value of a digit string, unbounded
RECURSIVE NatOf(_)
NatOf(s) ==
  IF Len(s) = 0 THEN 0
  ELSE NatOf(SubSeq(s, 1, Len(s) - 1)) * 10 + DigitVal(Ch(s, Len(s)))

(***************************************************************************)
(* Option and Result values.                                               *)
(***************************************************************************)
None == [some |-> FALSE]
Some(x) == [some |-> TRUE, val |-> x]

Ok(x) == [ok |-> TRUE, val |-> x]
Err(e) == [ok |-> FALSE, err |-> e]

\* a digit string without its leading zeros (one digit is always left)
RECURSIVE StripZeros(_)
StripZeros(s) ==
  IF Len(s) > 1 /\ Ch(s, 1) = "0" THEN StripZeros(SubSeq(s, 2, Len(s))) ELSE s

\* s > t for digit strings of equal length
RECURSIVE DigitsGreater(_, _)
DigitsGreater(s, t) ==
  IF Len(s) = 0 THEN FALSE
  ELSE IF Ch(s, 1) # Ch(t, 1) THEN DigitVal(Ch(s, 1)) > DigitVal(Ch(t, 1))
  ELSE DigitsGreater(SubSeq(s, 2, Len(s)), SubSeq(t, 2, Len(t)))

\* does the number written by the digit string s exceed u32::MAX
ExceedsU32(s) ==
  LET d == StripZeros(s)
  IN  \/ Len(d) > Len(U32MaxDigits)
      \/ Len(d) = Len(U32MaxDigits) /\ DigitsGreater(d, U32MaxDigits)

\* u32::from_str on a captured digit group
ParseU32(s) ==
  IF Len(s) = 0 \/ \E i \in 1..Len(s) : ~IsDigit(Ch(s, i)) THEN Err("invalid digit")
  ELSE IF ExceedsU32(s) THEN Err("number too large")
  ELSE Ok(NatOf(s))

\* std::cmp::Ordering on integers
CmpInt(x, y) == IF x < y THEN "Less" ELSE IF x > y THEN "Greater" ELSE "Equal"

\* Option<u32>::partial_cmp: None sorts before every Some
CmpOption(x, y) ==
  IF ~x.some /\ ~y.some THEN "Equal"
  ELSE IF ~x.some THEN "Less"
  ELSE IF ~y.some THEN "Greater"
  ELSE CmpInt(x.val, y.val)

(***************************************************************************)
(* pep_440.rs: PreRelease and Version.                                     *)
(***************************************************************************)
PreRelease(kind, n) == [kind |-> kind, n |-> n]

\* make_ord of PreRelease::partial_cmp
PreReleaseRank(kind) ==
  CASE kind = "Alpha" -> 0 [] kind = "Beta" -> 1 [] kind = "ReleaseCandidate" -> 2

\* PreRelease::partial_cmp: the tuples (rank, n) compared lexicographically
PreReleaseCmp(p, q) ==
  IF PreReleaseRank(p.kind) # PreReleaseRank(q.kind)
  THEN CmpInt(PreReleaseRank(p.kind), PreReleaseRank(q.kind))
  ELSE CmpInt(p.n, q.n)

\* Option<PreRelease>::partial_cmp
CmpOptionPre(x, y) ==
  IF ~x.some /\ ~y.some THEN "Equal"
  ELSE IF ~x.some THEN "Less"
  ELSE IF ~y.some THEN "Greater"
  ELSE PreReleaseCmp(x.val, y.val)

\* Vec<u32>::cmp: element by element over the shared prefix, then by length
RECURSIVE CmpVec(_, _)
CmpVec(v, w) ==
  IF Len(v) = 0 /\ Len(w) = 0 THEN "Equal"
  ELSE IF Len(v) = 0 THEN "Less"
  ELSE IF Len(w) = 0 THEN "Greater"
  ELSE IF Head(v) # Head(w) THEN CmpInt(Head(v), Head(w))
  ELSE CmpVec(Tail(v), Tail(w))

\* struct Version
Version(epoch, versions, pre_release, post_release, dev_release, local) ==
  [epoch |-> epoch, versions |-> versions, pre_release |-> pre_release,
   post_release |-> post_release, dev_release |-> dev_release, local |-> local]

\* a plausible slip: the second arm of the pre-release rule copied from the first
\* with its pattern changed and its result left as it was, here Less in both
VersionPartialCmpBothLess(a, b) ==
  IF CmpOption(a.epoch, b.epoch) # "Equal" THEN CmpOption(a.epoch, b.epoch)
  ELSE IF ~a.pre_release.some /\ b.pre_release.some THEN "Less"
  ELSE IF a.pre_release.some /\ ~b.pre_release.some THEN "Less"
  ELSE IF CmpVec(a.versions, b.versions) # "Equal" THEN CmpVec(a.versions, b.versions)
  ELSE IF CmpOptionPre(a.pre_release, b.pre_release) # "Equal"
    THEN CmpOptionPre(a.pre_release, b.pre_release)
  ELSE IF CmpOption(a.post_release, b.post_release) # "Equal"
    THEN CmpOption(a.post_release, b.post_release)
  ELSE IF CmpOption(a.dev_release, b.dev_release) # "Equal"
    THEN CmpOption(a.dev_release, b.dev_release)
  ELSE "Equal"

\* a plausible slip: the release segments compared before the pre-release rule
VersionPartialCmpSegmentsFirst(a, b) ==
  IF CmpOption(a.epoch, b.epoch) # "Equal" THEN CmpOption(a.epoch, b.epoch)
  ELSE IF CmpVec(a.versions, b.versions) # "Equal" THEN CmpVec(a.versions, b.versions)
  ELSE IF CmpOptionPre(a.pre_release, b.pre_release) # "Equal"
    THEN CmpOptionPre(a.pre_release, b.pre_release)
  ELSE IF CmpOption(a.post_release, b.post_release) # "Equal"
    THEN CmpOption(a.post_release, b.post_release)
  ELSE CmpOption(a.dev_release, b.dev_release)

\* Version::partial_cmp; it never returns None
VersionPartialCmp(a, b) ==
  IF CmpOption(a.epoch, b.epoch) # "Equal" THEN CmpOption(a.epoch, b.epoch)
  ELSE IF ~a.pre_release.some /\ b.pre_release.some THEN "Greater"
  ELSE IF a.pre_release.some /\ ~b.pre_release.some THEN "Less"
  ELSE IF CmpVec(a.versions, b.versions) # "Equal" THEN CmpVec(a.versions, b.versions)
  ELSE IF CmpOptionPre(a.pre_release, b.pre_release) # "Equal"
    THEN CmpOptionPre(a.pre_release, b.pre_release)
  ELSE IF CmpOption(a.post_release, b.post_release) # "Equal"
    THEN CmpOption(a.post_release, b.post_release)
  ELSE IF CmpOption(a.dev_release, b.dev_release) # "Equal"
    THEN CmpOption(a.dev_release, b.dev_release)
  ELSE "Equal"

\* a plausible slip: equality that forgets the local label
VersionEqIgnoringLocal(a, b) ==
  [a EXCEPT !.local = None] = [b EXCEPT !.local = None]

\* #[derive(PartialEq)] on Version: all six fields, local included
VersionEq(a, b) ==
  /\ a.epoch = b.epoch
  /\ a.versions = b.versions
  /\ a.pre_release = b.pre_release
  /\ a.post_release = b.post_release
  /\ a.dev_release = b.dev_release
  /\ a.local = b.local

\* the operators <, <=, >, >= that PartialOrd derives from partial_cmp
VersionLt(a, b) == VersionPartialCmp(a, b) = "Less"
VersionLe(a, b) == VersionPartialCmp(a, b) \in {"Less", "Equal"}
VersionGt(a, b) == VersionPartialCmp(a, b) = "Greater"
VersionGe(a, b) == VersionPartialCmp(a, b) \in {"Greater", "Equal"}

\* u32::to_string
RECURSIVE U32ToString(_)
U32ToString(n) ==
  IF n < 10 THEN SubSeq("0123456789", n + 1, n + 1)
  ELSE U32ToString(n \div 10) \o SubSeq("0123456789", (n % 10) + 1, (n % 10) + 1)

\* PreRelease::to_string
PreReleaseToString(p) ==
  CASE p.kind = "Alpha" -> "a" \o U32ToString(p.n)
    [] p.kind = "Beta" -> "b" \o U32ToString(p.n)
    [] p.kind = "ReleaseCandidate" -> "rc" \o U32ToString(p.n)

\* join(".") of the release segments
RECURSIVE JoinDots(_)
JoinDots(v) ==
  IF Len(v) = 0 THEN ""
  ELSE IF Len(v) = 1 THEN U32ToString(v[1])
  ELSE U32ToString(v[1]) \o "." \o JoinDots(Tail(v))

\* Version::to_string
VersionToString(v) ==
  (IF v.epoch.some THEN U32ToString(v.epoch.val) \o "!" ELSE "")
  \o JoinDots(v.versions)
  \o (IF v.pre_release.some THEN PreReleaseToString(v.pre_release.val) ELSE "")
  \o (IF v.post_release.some THEN ".post" \o U32ToString(v.post_release.val) ELSE "")
  \o (IF v.dev_release.some THEN ".dev" \o U32ToString(v.dev_release.val) ELSE "")
  \o (IF v.local.some THEN "+" \o v.local.val ELSE "")

(***************************************************************************)
(* Version::from_str.  The pattern is anchored at both ends and reads, in  *)
(* order: an optional epoch (digits and "!"), the version (digit groups    *)
(* joined by "."), an optional pre-release (a kind token and digits), an   *)
(* optional ".post" and digits, an optional ".dev" and digits, an optional *)
(* "+" and a non-empty local label.  Each optional group starts with text  *)
(* that no later group can consume, so a group that can match must match.  *)
(***************************************************************************)
\* the alternation of pre_release_kind, in the order the pattern lists it
PreReleaseKindTokens == <<"a", "alpha", "b", "beta", "rc">>

\* the groups of a match in progress: pos is where the next group starts
NoCaptures ==
  [matched |-> TRUE, pos |-> 1, epoch |-> None, version |-> "",
   pre_release_kind |-> None, pre_release_num |-> None, post_release |-> None,
   dev_release |-> None, local |-> None]

NoMatch == [NoCaptures EXCEPT !.matched = FALSE]

\* the epoch group: digits that end before e, then "!"
EpochGroupTo(s, e) ==
  IF e > 1 /\ Ch(s, e) = "!"
  THEN [NoCaptures EXCEPT !.pos = e + 1, !.epoch = Some(SubSeq(s, 1, e - 1))]
  ELSE NoCaptures

EpochGroup(s) == EpochGroupTo(s, DigitsEnd(s, 1))

\* digit groups joined by "." from position i: the position after the match, i if none
RECURSIVE VersionPartEnd(_, _)
VersionPartEnd(s, i) ==
  IF DigitsEnd(s, i) = i THEN i
  ELSE IF Ch(s, DigitsEnd(s, i)) = "." /\ IsDigit(Ch(s, DigitsEnd(s, i) + 1))
    THEN VersionPartEnd(s, DigitsEnd(s, i) + 1)
  ELSE DigitsEnd(s, i)

\* the version group, which is required
VersionGroupTo(s, m, p) ==
  IF p = m.pos THEN NoMatch
  ELSE [m EXCEPT !.pos = p, !.version = SubSeq(s, m.pos, p - 1)]

VersionGroup(s, m) == VersionGroupTo(s, m, VersionPartEnd(s, m.pos))

\* the first kind token at position i that digits follow; 0 if none
MatchPreReleaseKind(s, i) ==
  LET fits(k) == /\ StartsWithAt(s, i, PreReleaseKindTokens[k])
                 /\ IsDigit(Ch(s, i + Len(PreReleaseKindTokens[k])))
  IN  IF \E k \in 1..Len(PreReleaseKindTokens) : fits(k)
      THEN CHOOSE k \in 1..Len(PreReleaseKindTokens) :
             fits(k) /\ \A j \in 1..(k - 1) : ~fits(j)
      ELSE 0

\* the pre-release group with kind token k (0: the group is absent)
PreReleaseGroupOf(s, m, k) ==
  IF ~m.matched \/ k = 0 THEN m
  ELSE [m EXCEPT
          !.pos = DigitsEnd(s, m.pos + Len(PreReleaseKindTokens[k])),
          !.pre_release_kind = Some(PreReleaseKindTokens[k]),
          !.pre_release_num =
            Some(SubSeq(s, m.pos + Len(PreReleaseKindTokens[k]),
                        DigitsEnd(s, m.pos + Len(PreReleaseKindTokens[k])) - 1))]

PreReleaseGroup(s, m) == PreReleaseGroupOf(s, m, MatchPreReleaseKind(s, m.pos))

\* the ".post" group
PostGroup(s, m) ==
  IF m.matched /\ StartsWithAt(s, m.pos, ".post") /\ IsDigit(Ch(s, m.pos + 5))
  THEN [m EXCEPT !.pos = DigitsEnd(s, m.pos + 5),
                 !.post_release = Some(SubSeq(s, m.pos + 5, DigitsEnd(s, m.pos + 5) - 1))]
  ELSE m

\* the ".dev" group
DevGroup(s, m) ==
  IF m.matched /\ StartsWithAt(s, m.pos, ".dev") /\ IsDigit(Ch(s, m.pos + 4))
  THEN [m EXCEPT !.pos = DigitsEnd(s, m.pos + 4),
                 !.dev_release = Some(SubSeq(s, m.pos + 4, DigitsEnd(s, m.pos + 4) - 1))]
  ELSE m

\* the local group: "+" and everything after it, which must not be empty
LocalGroup(s, m) ==
  IF m.matched /\ Ch(s, m.pos) = "+" /\ m.pos < Len(s)
  THEN [m EXCEPT !.pos = Len(s) + 1, !.local = Some(SubSeq(s, m.pos + 1, Len(s)))]
  ELSE m

\* the anchor at the end of the pattern
EndAnchor(s, m) == IF m.matched /\ m.pos = Len(s) + 1 THEN m ELSE NoMatch

\* RE.captures(version_str): the named groups, or no match
VersionCaptures(s) ==
  EndAnchor(s,
    LocalGroup(s,
      DevGroup(s,
        PostGroup(s,
          PreReleaseGroup(s,
            VersionGroup(s,
              EpochGroup(s)))))))

\* Result<Option<u32>> of a parsed digit group
NumberOf(parsed) ==
  IF parsed.ok THEN Ok(Some(parsed.val)) ELSE Err("failed to parse named capture")

\* the closure capture_number: Ok(None) for an absent group
CaptureNumber(capture) ==
  IF ~capture.some THEN Ok(None) ELSE NumberOf(ParseU32(capture.val))

\* the match on pre_release_kind: "a", "b" and "rc" have an arm, the rest is Err
PreReleaseKindOf(token) ==
  CASE token = "a" -> Ok("Alpha")
    [] token = "b" -> Ok("Beta")
    [] token = "rc" -> Ok("ReleaseCandidate")
    [] OTHER -> Err("unexpected pre_release_kind")

\* the loop over the version capture split at ".": the segments, or the error
VersionsOf(parts) ==
  IF \E i \in 1..Len(parts) : ~ParseU32(parts[i]).ok
  THEN Err("could not parse version part")
  ELSE Ok([i \in 1..Len(parts) |-> ParseU32(parts[i]).val])

\* the pre_release of the captures, from the kind and the number already parsed
PreReleaseFrom(kind, num) ==
  IF ~kind.ok THEN Err(kind.err)
  ELSE IF ~num.ok THEN Err(num.err)
  ELSE Ok(Some(PreRelease(kind.val, num.val.val)))

PreReleaseOf(c) ==
  IF ~c.pre_release_kind.some THEN Ok(None)
  ELSE PreReleaseFrom(PreReleaseKindOf(c.pre_release_kind.val),
                      CaptureNumber(c.pre_release_num))

\* Version::from_str once every group is converted: the first error, in the
\* order the function meets them, or the version
VersionFromParts(versions, pre_release, epoch, post_release, dev_release, local) ==
  IF ~versions.ok THEN Err(versions.err)
  ELSE IF ~pre_release.ok THEN Err(pre_release.err)
  ELSE IF ~epoch.ok THEN Err(epoch.err)
  ELSE IF ~post_release.ok THEN Err(post_release.err)
  ELSE IF ~dev_release.ok THEN Err(dev_release.err)
  ELSE Ok(Version(epoch.val, versions.val, pre_release.val, post_release.val,
                  dev_release.val, local))

VersionFromCaptures(c) ==
  IF ~c.matched THEN Err("could not match version str")
  ELSE VersionFromParts(VersionsOf(Split(c.version, ".")), PreReleaseOf(c),
                        CaptureNumber(c.epoch), CaptureNumber(c.post_release),
                        CaptureNumber(c.dev_release), c.local)

\* Version::from_str
VersionFromStr(s) == VersionFromCaptures(VersionCaptures(s))

(***************************************************************************)
(* pep_440.rs: Operator, Specifier and SpecifierSet.                       *)
(***************************************************************************)
\* the alternation of the specifier pattern, in the order the pattern lists it
OperatorTokens == <<"~=", "==", "!=", ">=", "<=", ">", "<">>

\* the match on the operator capture
OperatorOf(token) ==
  CASE token = "~=" -> "Compatible"
    [] token = "==" -> "Equals"
    [] token = "!=" -> "NotEquals"
    [] token = ">=" -> "GreaterThanOrEqual"
    [] token = "<=" -> "LessThanOrEqual"
    [] token = ">" -> "GreaterThan"
    [] token = "<" -> "LessThan"

Operators ==
  {"Compatible", "Equals", "NotEquals", "GreaterThanOrEqual", "LessThanOrEqual",
   "GreaterThan", "LessThan"}

\* struct Specifier
Specifier(operator, version) == [operator |-> operator, version |-> version]

\* RE.captures(specifier_str).  The pattern is not anchored: the match starts at
\* the leftmost position where an operator token is followed by a character,
\* takes the first token of the alternation that fits there, and the version
\* capture is the rest of the string.
OperatorFits(s, i, k) ==
  /\ StartsWithAt(s, i, OperatorTokens[k])
  /\ i + Len(OperatorTokens[k]) <= Len(s)

OperatorStarts(s) ==
  {i \in 1..Len(s) : \E k \in 1..Len(OperatorTokens) : OperatorFits(s, i, k)}

FirstOperatorAt(s, i) ==
  CHOOSE k \in 1..Len(OperatorTokens) :
    OperatorFits(s, i, k) /\ \A j \in 1..(k - 1) : ~OperatorFits(s, i, j)

SpecifierCapturesWith(s, i, token) ==
  [matched |-> TRUE, operator |-> token, version |-> SubSeq(s, i + Len(token), Len(s))]

SpecifierCapturesAt(s, i) ==
  SpecifierCapturesWith(s, i, OperatorTokens[FirstOperatorAt(s, i)])

FirstOf(S) == CHOOSE i \in S : \A j \in S : i <= j

SpecifierCapturesFrom(s, starts) ==
  IF starts = {} THEN [matched |-> FALSE]
  ELSE SpecifierCapturesAt(s, FirstOf(starts))

SpecifierCaptures(s) == SpecifierCapturesFrom(s, OperatorStarts(s))

\* the specifier of a matched operator and the parse of the version capture
SpecifierOf(operator, version) ==
  IF ~version.ok THEN Err(version.err)
  ELSE Ok(Specifier(operator, version.val))

SpecifierFromCaptures(c) ==
  IF ~c.matched THEN Err("could not match version str")
  ELSE SpecifierOf(OperatorOf(c.operator), VersionFromStr(c.version))

\* Specifier::from_str
SpecifierFromStr(s) == SpecifierFromCaptures(SpecifierCaptures(s))

\* how a call ends: it returns a value or it panics
Return(x) == [panic |-> FALSE, val |-> x]
Panic(msg) == [panic |-> TRUE, msg |-> msg]

\* Specifier::contains; the Compatible arm is todo!(), which panics
SpecifierContains(specifier, version) ==
  CASE specifier.operator = "Compatible" -> Panic("not yet implemented")
    [] specifier.operator = "Equals" -> Return(VersionEq(version, specifier.version))
    [] specifier.operator = "NotEquals" -> Return(~VersionEq(version, specifier.version))
    [] specifier.operator = "GreaterThanOrEqual" ->
         Return(VersionGe(version, specifier.version))
    [] specifier.operator = "LessThanOrEqual" ->
         Return(VersionLe(version, specifier.version))
    [] specifier.operator = "GreaterThan" -> Return(VersionGt(version, specifier.version))
    [] specifier.operator = "LessThan" -> Return(VersionLt(version, specifier.version))

\* flat_map over a Result: an Ok value is kept, an Err gives nothing
KeepOk(r, rest) == (IF r.ok THEN <<r.val>> ELSE <<>>) \o rest

\* a plausible slip: the tokens are parsed untrimmed
RECURSIVE OkSpecifiersUntrimmed(_)
OkSpecifiersUntrimmed(strs) ==
  IF Len(strs) = 0 THEN <<>>
  ELSE KeepOk(SpecifierFromStr(Head(strs)), OkSpecifiersUntrimmed(Tail(strs)))

\* the Ok values of the tokens, trimmed and parsed, in order
RECURSIVE OkSpecifiers(_)
OkSpecifiers(strs) ==
  IF Len(strs) = 0 THEN <<>>
  ELSE KeepOk(SpecifierFromStr(Trim(Head(strs))), OkSpecifiers(Tail(strs)))

\* SpecifierSet::from_str: always Ok
SpecifierSetFromStr(s) == Ok([specifiers |-> OkSpecifiers(Split(s, ","))])

\* SpecifierSet::contains: the loop over the specifiers from position i on
RECURSIVE SpecifiersContainFrom(_, _, _)

\* the loop after specifier i answered r
SpecifiersContainAfter(r, specifiers, i, version) ==
  IF r.panic THEN r
  ELSE IF ~r.val THEN Return(FALSE)
  ELSE SpecifiersContainFrom(specifiers, i + 1, version)

SpecifiersContainFrom(specifiers, i, version) ==
  IF i > Len(specifiers) THEN Return(TRUE)
  ELSE SpecifiersContainAfter(SpecifierContains(specifiers[i], version),
                              specifiers, i, version)

\* SpecifierSet::contains
SpecifierSetContains(set, version) == SpecifiersContainFrom(set.specifiers, 1, version)

(***************************************************************************)
(* pep_427.rs: WheelInfo::from_str.  The pattern is six greedy fields of   *)
(* one or more characters joined by "-", the third (build_tag) optional,   *)
(* followed by ".whl" at the end of the name.  A field may itself contain  *)
(* "-"; the leftmost field takes as much as the rest of the pattern        *)
(* allows, then the next one does.                                         *)
(***************************************************************************)
\* can k separators be placed in body at or after `from`, each followed by a
\* non-empty field and no two adjacent
RECURSIVE CanPlace(_, _, _)
CanPlace(body, from, k) ==
  IF k = 0 THEN from <= Len(body) + 1
  ELSE /\ FindChar(body, "-", from) # 0
       /\ FindChar(body, "-", from) < Len(body)
       /\ CanPlace(body, FindChar(body, "-", from) + 2, k - 1)

\* where a separator may stand after the separator (or start) at prev, with k
\* more separators to follow
SeparatorChoices(body, prev, k) ==
  {q \in (prev + 2)..(Len(body) - 1) : Ch(body, q) = "-" /\ CanPlace(body, q + 2, k)}

\* the greedy choice: the rightmost; 0 if there is none
LastOf(S) == IF S = {} THEN 0 ELSE CHOOSE q \in S : \A r \in S : r <= q

\* the fields between the chosen separators; pb = p2 when there is no build_tag
WheelFields(body, p1, p2, pb, p3, p4) ==
  Ok([distribution |-> SubSeq(body, 1, p1 - 1),
      version |-> SubSeq(body, p1 + 1, p2 - 1),
      build_tag |-> IF pb # p2 THEN Some(SubSeq(body, p2 + 1, pb - 1)) ELSE None,
      python_tag |-> SubSeq(body, pb + 1, p3 - 1),
      abi_tag |-> SubSeq(body, p3 + 1, p4 - 1),
      platform_tag |-> SubSeq(body, p4 + 1, Len(body))])

WheelAfterAbi(body, p1, p2, pb, p3) ==
  WheelFields(body, p1, p2, pb, p3, LastOf(SeparatorChoices(body, p3, 0)))

WheelAfterPython(body, p1, p2, pb) ==
  WheelAfterAbi(body, p1, p2, pb, LastOf(SeparatorChoices(body, pb, 1)))

\* the optional build_tag group is taken when three more separators fit
WheelAfterVersion(body, p1, p2) ==
  WheelAfterPython(body, p1, p2,
                   IF SeparatorChoices(body, p2, 2) # {}
                   THEN LastOf(SeparatorChoices(body, p2, 2)) ELSE p2)

WheelAfterDistribution(body, p1) ==
  IF p1 = 0 THEN Err("could not match wheel name")
  ELSE WheelAfterVersion(body, p1, LastOf(SeparatorChoices(body, p1, 2)))

WheelBody(body) == WheelAfterDistribution(body, LastOf(SeparatorChoices(body, 0, 3)))

\* WheelInfo::from_str
WheelInfoFromStr(wheel_name) ==
  IF ~EndsWith(wheel_name, ".whl") THEN Err("could not match wheel name")
  ELSE WheelBody(SubSeq(wheel_name, 1, Len(wheel_name) - 4))

(***************************************************************************)
(* main.rs: the rules the filter loop of handle_package_index applies to   *)
(* one release.  A rule says "next" (go on to the next rule) or "drop"     *)
(* (the loop's continue), or it panics.                                    *)
(***************************************************************************)
\* struct Release of pep_503.rs
Release(name, uri) ==
  [name |-> name, uri |-> uri, has_gpg |-> FALSE, requires_python |-> None]

\* if !specifier_set.contains(&version) { continue; }
DropUnlessContained(contains) ==
  IF contains.panic THEN contains
  ELSE IF ~contains.val THEN Return("drop")
  ELSE Return("next")

\* Version::from_str(&wheel_info.version).unwrap() and the check of the set
WheelVersionRule(version, specifier_set) ==
  IF ~version.ok THEN Panic("called Result::unwrap() on an Err value")
  ELSE DropUnlessContained(SpecifierSetContains(specifier_set, version.val))

WheelInfoRule(wheel_info, specifier_set) ==
  IF ~wheel_info.ok THEN Return("next")
  ELSE WheelVersionRule(VersionFromStr(wheel_info.val.version), specifier_set)

\* the wheel rule
WheelRule(name, specifier_set) == WheelInfoRule(WheelInfoFromStr(name), specifier_set)

\* sdist_pkg: the name without a source-distribution suffix, if it has one
SdistPkg(name) ==
  IF EndsWith(name, ".tar.gz") THEN Some(SubSeq(name, 1, Len(name) - Len(".tar.gz")))
  ELSE IF EndsWith(name, ".zip") THEN Some(SubSeq(name, 1, Len(name) - Len(".zip")))
  ELSE IF EndsWith(name, ".sdist") THEN Some(SubSeq(name, 1, Len(name) - Len(".sdist")))
  ELSE None

\* the parts around the separator at position p; None if p is 0
SplitAt(s, p) ==
  IF p = 0 THEN None
  ELSE Some(<<SubSeq(s, 1, p - 1), SubSeq(s, p + 1, Len(s))>>)

\* str::split_once on "-": the parts around the first "-", if there is one
SplitOnce(s) == SplitAt(s, FindChar(s, "-", 1))

\* a plausible slip: a source distribution whose version does not parse is kept
SdistVersionRuleKeepUnparsed(version, specifier_set) ==
  IF ~version.ok THEN Return("next")
  ELSE DropUnlessContained(SpecifierSetContains(specifier_set, version.val))

\* the match on Version::from_str(version_str)
SdistVersionRule(version, specifier_set) ==
  IF ~version.ok THEN Return("drop")
  ELSE DropUnlessContained(SpecifierSetContains(specifier_set, version.val))

\* sdist_pkg.split_once('-').unwrap()
SdistSplitRule(split, specifier_set) ==
  IF ~split.some THEN Panic("called Option::unwrap() on a None value")
  ELSE SdistVersionRule(VersionFromStr(split.val[2]), specifier_set)

SdistPkgRule(sdist_pkg, specifier_set) ==
  IF ~sdist_pkg.some THEN Return("next")
  ELSE SdistSplitRule(SplitOnce(sdist_pkg.val), specifier_set)

\* the source-distribution rule
SdistRule(name, specifier_set) == SdistPkgRule(SdistPkg(name), specifier_set)

\* a plausible slip: eggs are let through
EggRuleKeep(name) == Return("keep")

\* the egg rule, the last of the loop: what it does not drop is pushed
EggRule(name) == IF EndsWith(name, ".egg") THEN Return("drop") ELSE Return("keep")

AfterSdistRule(sdist, release) ==
  IF sdist.panic \/ sdist.val = "drop" THEN sdist ELSE EggRule(release.name)

AfterWheelRule(wheel, release, specifier_set) ==
  IF wheel.panic \/ wheel.val = "drop" THEN wheel
  ELSE AfterSdistRule(SdistRule(release.name, specifier_set), release)

\* the body of the loop for one release: "keep" is releases.push(release)
FilterRelease(release, denylisted_releases, specifier_set) ==
  IF release.name \in denylisted_releases THEN Return("drop")
  ELSE AfterWheelRule(WheelRule(release.name, specifier_set), release, specifier_set)

\* a plausible slip: the kept release is put in front
PushReleaseFront(releases, release) == <<release>> \o releases

\* releases.push(release)
PushRelease(releases, release) == Append(releases, release)

(***************************************************************************)
(* Inputs.                                                                 *)
(***************************************************************************)
\* release segments of the generated versions
Segments == {0, 1}

\* release-segment lists: a leading 1, then up to MaxReleaseLen - 1 segments
ReleaseSegmentLists ==
  {<<1>> \o t : t \in UNION {[1..n -> Segments] : n \in 0..(MaxReleaseLen - 1)}}

\* the qualifiers put around a release-segment list
Qualifiers ==
  { [epoch |-> None,    pre |-> None, post |-> None,    dev |-> None,    local |-> None],
    [epoch |-> Some(0), pre |-> None, post |-> None,    dev |-> None,    local |-> None],
    [epoch |-> Some(1), pre |-> None, post |-> None,    dev |-> None,    local |-> None],
    [epoch |-> None,    pre |-> None, post |-> Some(0), dev |-> None,    local |-> None],
    [epoch |-> None,    pre |-> None, post |-> Some(1), dev |-> None,    local |-> None],
    [epoch |-> None,    pre |-> None, post |-> None,    dev |-> Some(0), local |-> None],
    [epoch |-> None,    pre |-> None, post |-> Some(0), dev |-> Some(1), local |-> None],
    [epoch |-> None,    pre |-> None, post |-> None,    dev |-> None,    local |-> Some("x")],
    [epoch |-> None,    pre |-> None, post |-> None,    dev |-> None,    local |-> Some("y")],
    [epoch |-> None,    pre |-> Some(PreRelease("Alpha", 0)),
       post |-> None, dev |-> None, local |-> None],
    [epoch |-> None,    pre |-> Some(PreRelease("Alpha", 1)),
       post |-> None, dev |-> None, local |-> None],
    [epoch |-> None,    pre |-> Some(PreRelease("Beta", 0)),
       post |-> None, dev |-> None, local |-> None],
    [epoch |-> None,    pre |-> Some(PreRelease("ReleaseCandidate", 0)),
       post |-> None, dev |-> None, local |-> None],
    [epoch |-> Some(1), pre |-> Some(PreRelease("Alpha", 0)),
       post |-> None, dev |-> None, local |-> None],
    [epoch |-> None,    pre |-> Some(PreRelease("Alpha", 0)),
       post |-> Some(0), dev |-> None, local |-> None],
    [epoch |-> None,    pre |-> Some(PreRelease("Beta", 0)),
       post |-> None, dev |-> None, local |-> Some("x")] }

\* canonical version strings: Version::to_string of the generated versions
CanonicalVersionStrings ==
  {VersionToString(Version(q.epoch, r, q.pre, q.post, q.dev, q.local)) :
     q \in Qualifiers, r \in ReleaseSegmentLists}

\* version strings with each pre-release marker token of the pattern
MarkerReleases == {"1", "1.0"}
MarkerNumbers == {0, 12}
MarkerVersionStrings ==
  {r \o PreReleaseKindTokens[k] \o U32ToString(n) :
     r \in MarkerReleases, k \in 1..Len(PreReleaseKindTokens), n \in MarkerNumbers}

\* strings that are no version, or whose numbers do not fit u32
MalformedVersionStrings ==
  {"", "1.", "1.0b", "v1", "1!", "4294967296", "1.0a4294967296", "1.0rc"}

VersionStrings ==
  CanonicalVersionStrings \cup MarkerVersionStrings \cup MalformedVersionStrings

\* the versions compared three at a time: each a value Version::from_str gives
OrderSegmentLists == UNION {[1..n -> Segments] : n \in 1..MaxOrderLen}
OrderQualifiers ==
  { [epoch |-> None,    pre |-> None, post |-> None,    dev |-> None,    local |-> None],
    [epoch |-> Some(0), pre |-> None, post |-> None,    dev |-> None,    local |-> None],
    [epoch |-> None,    pre |-> None, post |-> Some(0), dev |-> None,    local |-> None],
    [epoch |-> None,    pre |-> None, post |-> None,    dev |-> Some(0), local |-> None],
    [epoch |-> None,    pre |-> None, post |-> None,    dev |-> None,    local |-> Some("x")],
    [epoch |-> None,    pre |-> Some(PreRelease("Alpha", 0)),
       post |-> None, dev |-> None, local |-> None],
    [epoch |-> None,    pre |-> Some(PreRelease("Beta", 0)),
       post |-> None, dev |-> None, local |-> None] }
OrderVersions ==
  {Version(q.epoch, r, q.pre, q.post, q.dev, q.local) :
     q \in OrderQualifiers, r \in OrderSegmentLists}

\* the operator tokens
OperatorTokenSet == {OperatorTokens[k] : k \in 1..Len(OperatorTokens)}

\* release names an upstream index may list
ReleaseNames ==
  {"foo-1.0-py3-none-any.whl",   \* a wheel
   "foo-x-py3-none-any.whl",     \* a wheel-shaped name whose version field is no Version
   "foo-1.0.tar.gz",             \* source distributions
   "foo-0.9.zip",
   "foo-bar-1.0.tar.gz",         \* the part after the first "-" is no Version
   "foo.sdist",                  \* no "-" in the stem
   "foo-1.0.egg",
   "foo-1.0.exe"}

\* the upstream package indexes: up to MaxReleases releases, each with its own uri
PackageIndexes ==
  UNION {{[i \in 1..n |-> Release(names[i], "/packages/" \o U32ToString(i))] :
            names \in [1..n -> ReleaseNames]} : n \in 0..MaxReleases}

\* the policies a fixtures file may hold
Denylists == {{}, {"foo-1.0.tar.gz"}, {"foo-1.0.egg", "foo-1.0.exe"}}
VersionLimits == {">=1.0", "<1.0, junk", "~=1.0", ""}
PackageConfigs ==
  {[release_denylist |-> d, version_limits |-> l] : d \in Denylists, l \in VersionLimits}

Methods == {"GET", "POST"}

\* the HeaderMap of an inbound request: per header name, in the order the names
\* came, the values of that name in the order they came
HeaderNames == {"host", "accept-encoding", "accept"}
HeaderValueLists == {<<"a">>, <<"a", "b">>}
HeaderMaps ==
  UNION {{[i \in 1..n |-> [name |-> names[i], values |-> values[i]]] :
            names \in {f \in [1..n -> HeaderNames] :
                         \A i, j \in 1..n : f[i] = f[j] => i = j},
            values \in [1..n -> HeaderValueLists]} : n \in 0..MaxHeaders}
Routes == {"root", "package"}

\* the tokens of a version_limits string: a text, and whether spaces surround it
TokenTexts == {">=1.0", "<2", "v>=1.0", "~=1", "junk", ""}
Tokens == {[text |-> t, padded |-> p] : t \in TokenTexts, p \in BOOLEAN}
\* most tokens in a generated version_limits string
MaxTokens == 2
TokenLists == UNION {[1..n -> Tokens] : n \in 1..MaxTokens}

TokenString(token) == IF token.padded THEN " " \o token.text \o "  " ELSE token.text

\* the tokens joined by commas
RECURSIVE JoinCommas(_)
JoinCommas(toks) ==
  IF Len(toks) = 1 THEN TokenString(toks[1])
  ELSE TokenString(toks[1]) \o "," \o JoinCommas(Tail(toks))

\* versions tried against a parsed set
ProbeStrings == {"0.9", "1.0", "2.0a1"}

(***************************************************************************)
(* State.                                                                  *)
(***************************************************************************)
VARIABLES
  \* one request through the routes and handle_package_index / handle_root_index
  pc,                  \* where the request is
  request,             \* its route and method
  upstream_requests,   \* requests sent to the upstream index
  res,                 \* the response, once there is one
  package_index,       \* the releases parsed from the upstream body
  package_config,      \* the loaded policy, if any
  specifier_set,       \* SpecifierSet::from_str of its version_limits
  idx,                 \* the next release of package_index the loop takes
  releases,            \* the vector the loop pushes the kept releases to
  panic_msg,           \* the message of the panic that ended the handler, or ""
  headers,             \* the HeaderMap of the inbound request, until it is dropped
  upstream_request,    \* the Request forward_upstream builds, until it is sent
  upstream_reply,      \* how client.request(..).await ended: "none", "error", "response"
  \* the functions of pep_440.rs applied to a pair of version strings
  vpc,                 \* "start", "other", "sets", "version", "compared", "evaluated"
  other_str,           \* a version string V
  other,               \* Version::from_str of it
  specifier_sets,      \* per operator token t: SpecifierSet::from_str of t followed by V
  version_str,         \* a second version string
  version,             \* Version::from_str of it
  cmp,                 \* the comparison and equality of version and other
  contained,           \* per operator token t: how specifier_sets[t].contains(&version) ends
  \* SpecifierSet::from_str applied to a list of tokens joined by commas
  spc,                 \* "start", "parsed", "probed"
  tokens,              \* the tokens, each a text and its padding
  set_str,             \* the string parsed
  set_result,          \* the result of SpecifierSet::from_str
  probe,               \* a version tried against the parsed set
  probe_result,        \* how SpecifierSet::contains ended for it
  \* Version::partial_cmp applied to three versions
  opc,                 \* "start", "chosen", "compared"
  ver_a, ver_b, ver_c, \* the versions a, b and c
  order                \* the results of partial_cmp for the pairs ab, ba, bc, ac

forwardVars == <<headers, upstream_request, upstream_reply>>

requestVars ==
  <<pc, request, upstream_requests, res, package_index, package_config,
    specifier_set, idx, releases, panic_msg, forwardVars>>

versionVars ==
  <<vpc, other_str, other, specifier_sets, version_str, version, cmp, contained>>

setVars == <<spc, tokens, set_str, set_result, probe, probe_result>>

orderVars == <<opc, ver_a, ver_b, ver_c, order>>

vars == <<requestVars, versionVars, setVars, orderVars>>

NotParsed == Err("not parsed")
NoCmp == [ord |-> "none", eq |-> FALSE, lt |-> FALSE, gt |-> FALSE]
NoOutcome == Panic("not called")
EmptySet == [specifiers |-> <<>>]
NoRequest == [route |-> "none", method |-> "none"]
NoResponse == [status |-> 0, body |-> [kind |-> "none"]]
NoConfig == None
NoOrder == [ab |-> "none", ba |-> "none", bc |-> "none", ac |-> "none"]

RequestIdle ==
  /\ pc = "idle"
  /\ request = NoRequest
  /\ upstream_requests = 0
  /\ res = NoResponse
  /\ package_index = <<>>
  /\ package_config = NoConfig
  /\ specifier_set = EmptySet
  /\ idx = 1
  /\ releases = <<>>
  /\ panic_msg = ""
  /\ headers = <<>>
  /\ upstream_request = None
  /\ upstream_reply = "none"

VersionIdle ==
  /\ vpc = "start"
  /\ version_str = ""
  /\ other_str = ""
  /\ version = NotParsed
  /\ other = NotParsed
  /\ specifier_sets = [t \in OperatorTokenSet |-> Ok(EmptySet)]
  /\ cmp = NoCmp
  /\ contained = [t \in OperatorTokenSet |-> NoOutcome]

SetIdle ==
  /\ spc = "start"
  /\ tokens = <<>>
  /\ set_str = ""
  /\ set_result = Ok(EmptySet)
  /\ probe = NotParsed
  /\ probe_result = NoOutcome

OrderIdle ==
  /\ opc = "start"
  /\ ver_a = Version(None, <<0>>, None, None, None, None)
  /\ ver_b = Version(None, <<0>>, None, None, None, None)
  /\ ver_c = Version(None, <<0>>, None, None, None, None)
  /\ order = NoOrder

(***************************************************************************)
(* The functions of pep_440.rs on a pair of version strings.               *)
(***************************************************************************)
\* Version::from_str of a string V
ParseOther ==
  /\ vpc = "start"
  /\ \E s \in VersionStrings :
       /\ other_str' = s
       /\ other' = VersionFromStr(s)
  /\ vpc' = "other"
  /\ UNCHANGED <<specifier_sets, version_str, version, cmp, contained, requestVars,
                 setVars, orderVars>>

\* SpecifierSet::from_str of each operator token followed by V
ParseSpecifierSets ==
  /\ vpc = "other"
  /\ other.ok
  /\ specifier_sets' = [t \in OperatorTokenSet |-> SpecifierSetFromStr(t \o other_str)]
  /\ vpc' = "sets"
  /\ UNCHANGED <<other_str, other, version_str, version, cmp, contained, requestVars,
                 setVars, orderVars>>

\* Version::from_str of a second string
ParseVersion ==
  /\ vpc \in {"other", "sets"}
  /\ vpc = "other" => ~other.ok
  /\ \E s \in VersionStrings :
       /\ version_str' = s
       /\ version' = VersionFromStr(s)
  /\ vpc' = "version"
  /\ UNCHANGED <<other_str, other, specifier_sets, cmp, contained, requestVars, setVars, orderVars>>

\* version.partial_cmp(&other), version == other, version < other, version > other
CompareVersions ==
  /\ vpc = "version"
  /\ version.ok /\ other.ok
  /\ cmp' = [ord |-> VersionPartialCmp(version.val, other.val),
             eq |-> VersionEq(version.val, other.val),
             lt |-> VersionLt(version.val, other.val),
             gt |-> VersionGt(version.val, other.val)]
  /\ vpc' = "compared"
  /\ UNCHANGED <<other_str, other, specifier_sets, version_str, version, contained,
                 requestVars, setVars, orderVars>>

\* contains(&version) of each of the sets
EvaluateSpecifiers ==
  /\ vpc = "compared"
  /\ contained' =
       [t \in OperatorTokenSet |-> SpecifierSetContains(specifier_sets[t].val, version.val)]
  /\ vpc' = "evaluated"
  /\ UNCHANGED <<other_str, other, specifier_sets, version_str, version, cmp,
                 requestVars, setVars, orderVars>>

VersionInit == RequestIdle /\ VersionIdle /\ SetIdle /\ OrderIdle

VersionNext ==
  \/ ParseOther
  \/ ParseSpecifierSets
  \/ ParseVersion
  \/ CompareVersions
  \/ EvaluateSpecifiers

SpecVersion == VersionInit /\ [][VersionNext]_vars

(***************************************************************************)
(* SpecifierSet::from_str on generated version_limits strings.             *)
(***************************************************************************)
\* SpecifierSet::from_str of the tokens joined by commas
ParseSet ==
  /\ spc = "start"
  /\ \E toks \in TokenLists :
       /\ tokens' = toks
       /\ set_str' = JoinCommas(toks)
       /\ set_result' = SpecifierSetFromStr(JoinCommas(toks))
  /\ spc' = "parsed"
  /\ UNCHANGED <<probe, probe_result, requestVars, versionVars, orderVars>>

\* contains(&version) of the parsed set
ProbeSet ==
  /\ spc = "parsed"
  /\ set_result.ok
  /\ \E s \in ProbeStrings :
       /\ probe' = VersionFromStr(s)
       /\ probe_result' = SpecifierSetContains(set_result.val, VersionFromStr(s).val)
  /\ spc' = "probed"
  /\ UNCHANGED <<tokens, set_str, set_result, requestVars, versionVars, orderVars>>

SetInit == RequestIdle /\ VersionIdle /\ SetIdle /\ OrderIdle

SetNext == ParseSet \/ ProbeSet

SpecSet == SetInit /\ [][SetNext]_vars

(***************************************************************************)
(* Version::partial_cmp on three versions.                                 *)
(***************************************************************************)
\* three versions a, b and c
ChooseVersions ==
  /\ opc = "start"
  /\ \E a \in OrderVersions, b \in OrderVersions, c \in OrderVersions :
       /\ ver_a' = a
       /\ ver_b' = b
       /\ ver_c' = c
  /\ opc' = "chosen"
  /\ UNCHANGED <<order, requestVars, versionVars, setVars>>

\* a.partial_cmp(&b), b.partial_cmp(&a), b.partial_cmp(&c), a.partial_cmp(&c)
CompareTriple ==
  /\ opc = "chosen"
  /\ order' = [ab |-> VersionPartialCmp(ver_a, ver_b),
                ba |-> VersionPartialCmp(ver_b, ver_a),
                bc |-> VersionPartialCmp(ver_b, ver_c),
                ac |-> VersionPartialCmp(ver_a, ver_c)]
  /\ opc' = "compared"
  /\ UNCHANGED <<ver_a, ver_b, ver_c, requestVars, versionVars, setVars>>

OrderInit == RequestIdle /\ VersionIdle /\ SetIdle /\ OrderIdle

OrderNext == ChooseVersions \/ CompareTriple

SpecOrder == OrderInit /\ [][OrderNext]_vars

(***************************************************************************)
(* main.rs: one request.                                                   *)
(***************************************************************************)
TextBody(text) == [kind |-> "text", text |-> text]
\* the upstream body, as the releases PackageIndex::from_str reads from it
UpstreamBody(index) == [kind |-> "upstream", releases |-> index]
\* PackageIndex::to_string of the filtered index
PackageIndexBody(index) == [kind |-> "package_index", releases |-> index]
\* RootIndex::to_string
RootIndexBody == [kind |-> "root_index"]

\* what HeaderMap::into_iter yields for one name: the name with its first value,
\* then None with each further value
EntryItems(entry) ==
  [i \in 1..Len(entry.values) |->
     [header |-> IF i = 1 THEN Some(entry.name) ELSE None, value |-> entry.values[i]]]

\* headers.into_iter(): the items of the names, one name after the other
RECURSIVE HeaderItems(_)
HeaderItems(map) ==
  IF Len(map) = 0 THEN <<>>
  ELSE EntryItems(Head(map)) \o HeaderItems(Tail(map))

\* one turn of the loop over the items: request.header(header, value), or continue
ForwardHeader(built, item) ==
  IF ~item.header.some THEN built
  ELSE IF item.header.val = "host" \/ item.header.val = "accept-encoding" THEN built
  ELSE Append(built, [name |-> item.header.val, value |-> item.value])

\* the loop over the items, from the headers built so far
RECURSIVE ForwardHeaders(_, _)
ForwardHeaders(built, items) ==
  IF Len(items) = 0 THEN built
  ELSE ForwardHeaders(ForwardHeader(built, Head(items)), Tail(items))

\* Request::builder().method(Method::GET) ... .body(..)
BuildRequest(map) ==
  [method |-> "GET", headers |-> ForwardHeaders(<<>>, HeaderItems(map))]

\* a request arrives
Receive ==
  /\ pc = "idle"
  /\ \E route \in Routes, method \in Methods :
       request' = [route |-> route, method |-> method]
  /\ \E map \in HeaderMaps : headers' = map
  /\ pc' = "route"
  /\ UNCHANGED <<upstream_requests, res, package_index, package_config, specifier_set,
                 idx, releases, panic_msg, upstream_request, upstream_reply,
                 versionVars, setVars, orderVars>>

\* the routes of main: both carry warp::get(), which rejects every other method
\* before the handler runs; the rejection is answered 405 Method Not Allowed
Route ==
  /\ pc = "route"
  /\ IF request.method = "GET"
     THEN /\ pc' = "forward"
          /\ res' = res
     ELSE /\ pc' = "done"
          /\ res' = [status |-> 405, body |-> TextBody("HTTP method not allowed")]
  /\ UNCHANGED <<request, upstream_requests, package_index, package_config,
                 specifier_set, idx, releases, panic_msg, forwardVars, versionVars,
                 setVars, orderVars>>

\* forward_upstream up to client.request(request): the method check, then the
\* request built from the inbound headers
ForwardUpstream ==
  /\ pc = "forward"
  /\ IF request.method # "GET"
     THEN /\ res' = [status |-> 400,
                     body |-> TextBody("can only forward GET requests for now")]
          /\ upstream_request' = upstream_request
          /\ pc' = "forwarded"
     ELSE /\ upstream_request' = Some(BuildRequest(headers))
          /\ res' = res
          /\ pc' = "fetch"
  /\ UNCHANGED <<request, upstream_requests, package_index, package_config,
                 specifier_set, idx, releases, panic_msg, headers, upstream_reply,
                 versionVars, setVars, orderVars>>

\* client.request(request).await.expect(..) and the rest of forward_upstream: the
\* request is sent, and the fetch fails or answers with a body; the inbound
\* headers and the request were moved and are gone
FetchUpstream ==
  /\ pc = "fetch"
  /\ upstream_requests' = upstream_requests + 1
  /\ headers' = <<>>
  /\ upstream_request' = None
  /\ \/ /\ upstream_reply' = "error"
        /\ pc' = "aborted"
        /\ panic_msg' = "failed to make HTTP request"
        /\ UNCHANGED <<res, package_index>>
     \/ /\ upstream_reply' = "response"
        /\ \E index \in PackageIndexes :
             /\ package_index' = index
             /\ res' = [status |-> 200, body |-> UpstreamBody(index)]
        /\ pc' = "forwarded"
        /\ panic_msg' = panic_msg
  /\ UNCHANGED <<request, package_config, specifier_set, idx, releases, versionVars,
                 setVars, orderVars>>

\* handle_root_index after forward_upstream: the body is parsed and written again
HandleRootIndex ==
  /\ pc = "forwarded"
  /\ request.route = "root"
  /\ res' = [res EXCEPT !.body = RootIndexBody]
  /\ pc' = "done"
  /\ UNCHANGED <<request, upstream_requests, package_index, package_config,
                 specifier_set, idx, releases, panic_msg, forwardVars, versionVars, setVars, orderVars>>

\* handle_package_index: PackageConfig::load fails and the response is returned
\* as it came, or it gives a policy and SpecifierSet::from_str(..).unwrap() runs
LoadPackageConfig ==
  /\ pc = "forwarded"
  /\ request.route = "package"
  /\ \/ /\ pc' = "done"
        /\ UNCHANGED <<package_config, specifier_set>>
     \/ /\ \E config \in PackageConfigs :
             /\ package_config' = Some(config)
             /\ specifier_set' = SpecifierSetFromStr(config.version_limits).val
        /\ pc' = "filter"
  /\ UNCHANGED <<request, upstream_requests, res, package_index, idx, releases,
                 panic_msg, forwardVars, versionVars, setVars, orderVars>>

\* one turn of the loop over package_index.releases
FilterStep ==
  /\ pc = "filter"
  /\ idx <= Len(package_index)
  /\ \E outcome \in {FilterRelease(package_index[idx],
                                   package_config.val.release_denylist, specifier_set)} :
       IF outcome.panic
       THEN /\ pc' = "aborted"
            /\ panic_msg' = outcome.msg
            /\ UNCHANGED <<idx, releases>>
       ELSE /\ releases' = IF outcome.val = "keep"
                           THEN PushRelease(releases, package_index[idx])
                           ELSE releases
            /\ idx' = idx + 1
            /\ UNCHANGED <<pc, panic_msg>>
  /\ UNCHANGED <<request, upstream_requests, res, package_index, package_config,
                 specifier_set, forwardVars, versionVars, setVars, orderVars>>

\* after the loop: the kept releases become the body of the response
FinishFilter ==
  /\ pc = "filter"
  /\ idx > Len(package_index)
  /\ res' = [res EXCEPT !.body = PackageIndexBody(releases)]
  /\ pc' = "done"
  /\ UNCHANGED <<request, upstream_requests, package_index, package_config,
                 specifier_set, idx, releases, panic_msg, forwardVars, versionVars, setVars, orderVars>>

Init == RequestIdle /\ VersionIdle /\ SetIdle /\ OrderIdle

Next ==
  \/ Receive
  \/ Route
  \/ ForwardUpstream
  \/ FetchUpstream
  \/ HandleRootIndex
  \/ LoadPackageConfig
  \/ FilterStep
  \/ FinishFilter

Spec == Init /\ [][Next]_vars

(***************************************************************************)
(* Properties of the filter loop of handle_package_index, under Spec.      *)
(***************************************************************************)
\* a is b with some of its elements left out
RECURSIVE IsSubsequence(_, _)
IsSubsequence(a, b) ==
  IF Len(a) = 0 THEN TRUE
  ELSE IF Len(b) = 0 THEN FALSE
  ELSE IF Head(a) = Head(b) THEN IsSubsequence(Tail(a), Tail(b))
  ELSE IsSubsequence(a, Tail(b))

NamesOf(index) == [i \in 1..Len(index) |-> index[i].name]

PolicyLoaded == request.route = "package" /\ package_config.some

\* C1: the releases the loop has kept are a subsequence of the releases it has
\* taken from the input: each is an input release unmodified, none is added or
\* repeated, and the kept ones stand in the order of the input; the body of the
\* response is made of exactly these
C1_KeptIsSubsequence ==
  /\ IsSubsequence(releases, SubSeq(package_index, 1, idx - 1))
  /\ (pc = "done" /\ PolicyLoaded) =>
       /\ idx = Len(package_index) + 1
       /\ res.body = PackageIndexBody(releases)

\* C1 witness: a filtered response that kept two releases around a dropped one
C1_Witness ==
  /\ pc = "done" /\ PolicyLoaded
  /\ Len(package_index) = 3
  /\ releases = <<package_index[1], package_index[3]>>
  /\ package_index[1].name # package_index[3].name

\* the name without its source-distribution suffix
C2_Stem(name) ==
  IF EndsWith(name, ".tar.gz") THEN SubSeq(name, 1, Len(name) - 7)
  ELSE IF EndsWith(name, ".zip") THEN SubSeq(name, 1, Len(name) - 4)
  ELSE SubSeq(name, 1, Len(name) - 6)

\* Version::from_str of what follows the first "-" of the stem, if there is one
C2_Parsed(stem, dash) ==
  IF dash = 0 THEN Err("no separator")
  ELSE VersionFromStr(SubSeq(stem, dash + 1, Len(stem)))

C2_Accepts(parsed) ==
  IF parsed.ok THEN SpecifierSetContains(specifier_set, parsed.val) = Return(TRUE)
  ELSE FALSE

C2_Rejects(parsed) ==
  IF parsed.ok THEN SpecifierSetContains(specifier_set, parsed.val) = Return(FALSE)
  ELSE FALSE

C2_Decision(dash, parsed) ==
  /\ (idx' = idx + 1 /\ releases' = Append(releases, package_index[idx]))
       <=> C2_Accepts(parsed)
  /\ (idx' = idx + 1 /\ releases' = releases)
       <=> (dash # 0 /\ (~parsed.ok \/ C2_Rejects(parsed)))

C2_SdistTurn ==
  (/\ pc = "filter" /\ idx <= Len(package_index)
   /\ package_index[idx].name \notin package_config.val.release_denylist
   /\ \E suffix \in {".tar.gz", ".zip", ".sdist"} :
        EndsWith(package_index[idx].name, suffix))
  => \E stem \in {C2_Stem(package_index[idx].name)} :
       \E dash \in {FindChar(stem, "-", 1)} :
         C2_Decision(dash, C2_Parsed(stem, dash))

C3_NoEggKept ==
  /\ \A i \in 1..Len(releases) : ~EndsWith(releases[i].name, ".egg")
  /\ (pc = "done" /\ PolicyLoaded) =>
       /\ res.body.kind = "package_index"
       /\ \A i \in 1..Len(res.body.releases) :
            ~EndsWith(res.body.releases[i].name, ".egg")

\* C3 witness: an egg that is not denylisted, under version_limits that hold no
\* specifier, is missing from a response that keeps another release
C3_Witness ==
  /\ pc = "done" /\ PolicyLoaded
  /\ package_config.val = [release_denylist |-> {}, version_limits |-> ""]
  /\ NamesOf(package_index) = <<"foo-1.0.egg", "foo-1.0.exe">>
  /\ NamesOf(res.body.releases) = <<"foo-1.0.exe">>

\* C7: evaluating a policy that holds a Compatible specifier never aborts the
\* request in Specifier::contains
C7_CompatibleNeverAborts ==
  (PolicyLoaded /\ \E i \in 1..Len(specifier_set.specifiers) :
                     specifier_set.specifiers[i].operator = "Compatible")
  => ~(pc = "aborted" /\ panic_msg = "not yet implemented")

\* C10: a request with another method than GET is answered 400 with a text that
\* explains it, and no request is sent upstream
C10_NonGetAnswered400 ==
  (pc = "done" /\ request.method # "GET")
  => /\ res.status = 400
     /\ res.body.kind = "text"
     /\ upstream_requests = 0

(***************************************************************************)
(* Properties of Version and Specifier, under SpecVersion.                 *)
(***************************************************************************)
Compared == vpc \in {"compared", "evaluated"}

\* C4: of two versions with equal epoch of which exactly one has a pre-release,
\* the one without it compares greater whatever the release segments are, and
\* the set ">=V" of a V without pre-release rejects every version of V's epoch
\* that has one
C4_PreReleasePresenceRule ==
  (Compared /\ version.val.epoch = other.val.epoch) =>
    /\ (~version.val.pre_release.some /\ other.val.pre_release.some)
         => (cmp.ord = "Greater" /\ cmp.gt /\ ~cmp.lt)
    /\ (version.val.pre_release.some /\ ~other.val.pre_release.some)
         => /\ cmp.ord = "Less" /\ cmp.lt /\ ~cmp.gt
            /\ vpc = "evaluated" => contained[">="] = Return(FALSE)

\* C4 witness: ">=V" has rejected a pre-release whose release segments are
\* greater than those of V
C4_Witness ==
  /\ vpc = "evaluated"
  /\ version.val.epoch = other.val.epoch
  /\ version.val.pre_release.some /\ ~other.val.pre_release.some
  /\ CmpVec(version.val.versions, other.val.versions) = "Greater"
  /\ contained[">="] = Return(FALSE)

ExactlyOne(p, q, r) == (p /\ ~q /\ ~r) \/ (~p /\ q /\ ~r) \/ (~p /\ ~q /\ r)

SegmentsOneZeroAndOneZeroZero ==
  {version.val.versions, other.val.versions} = {<<1, 0>>, <<1, 0, 0>>}

\* C5 as stated: of a < b, a == b, a > b exactly one holds for any two parsed
\* versions, and release segments [1,0] and [1,0,0] compare unequal
C5_ExactlyOneOfLtEqGt ==
  Compared =>
    /\ ExactlyOne(cmp.lt, cmp.eq, cmp.gt)
    /\ SegmentsOneZeroAndOneZeroZero => (~cmp.eq /\ cmp.ord # "Equal")

\* C5 amended: of a < b, a == b, a > b at most one holds, and exactly one when
\* the local labels are equal; two versions that differ in the local label alone
\* are neither <, == nor >; release segments [1,0] and [1,0,0] compare unequal
C5_ExactlyOneUpToLocal ==
  Compared =>
    /\ ~(cmp.lt /\ cmp.eq) /\ ~(cmp.lt /\ cmp.gt) /\ ~(cmp.eq /\ cmp.gt)
    /\ version.val.local = other.val.local => ExactlyOne(cmp.lt, cmp.eq, cmp.gt)
    /\ (~cmp.lt /\ ~cmp.eq /\ ~cmp.gt)
         <=> /\ version.val.local # other.val.local
             /\ [version.val EXCEPT !.local = None] = [other.val EXCEPT !.local = None]
    /\ SegmentsOneZeroAndOneZeroZero => (~cmp.eq /\ cmp.ord # "Equal")

\* C5 witness: two versions that differ in the local label alone were compared
C5_Witness ==
  /\ Compared
  /\ version.val.local # other.val.local
  /\ [version.val EXCEPT !.local = None] = [other.val EXCEPT !.local = None]
  /\ ~cmp.lt /\ ~cmp.eq /\ ~cmp.gt

\* C6: for each operator but Compatible, contains(v) of the specifier of V is
\* the operator's relation on the ordering of v and V; "==V" accepts v exactly
\* when ">=V" and "<=V" both accept it
C6_ContainsIsOrderingRelation ==
  vpc = "evaluated" =>
    /\ contained["=="] = Return(cmp.ord = "Equal")
    /\ contained["!="] = Return(cmp.ord # "Equal")
    /\ contained[">="] = Return(cmp.ord \in {"Greater", "Equal"})
    /\ contained["<="] = Return(cmp.ord \in {"Less", "Equal"})
    /\ contained[">"] = Return(cmp.ord = "Greater")
    /\ contained["<"] = Return(cmp.ord = "Less")
    /\ contained["=="] = Return(TRUE)
         <=> (contained[">="] = Return(TRUE) /\ contained["<="] = Return(TRUE))

\* the variant a marker token stands for
C9_Normalized(token) ==
  CASE token \in {"a", "alpha"} -> "Alpha"
    [] token \in {"b", "beta"} -> "Beta"
    [] token = "rc" -> "ReleaseCandidate"

\* C9: a version string with one of the marker tokens a, alpha, b, beta, rc and
\* digits parses, and its pre-release is the variant of the token with the number
C9_MarkerTokensNormalized ==
  \A r \in MarkerReleases, k \in 1..Len(PreReleaseKindTokens), n \in MarkerNumbers :
    (vpc # "start" /\ other_str = r \o PreReleaseKindTokens[k] \o U32ToString(n))
    => /\ other.ok
       /\ other.val.pre_release = Some(PreRelease(C9_Normalized(PreReleaseKindTokens[k]), n))

(***************************************************************************)
(* Properties of SpecifierSet::from_str, under SpecSet.                    *)
(***************************************************************************)
\* the specifiers of the tokens whose text parses, in the order of the tokens
RECURSIVE C8_Expected(_)
C8_Expected(toks) ==
  IF Len(toks) = 0 THEN <<>>
  ELSE \* the text of a token has no space around it: it is the trimmed token
       (IF SpecifierFromStr(Head(toks).text).ok
        THEN <<SpecifierFromStr(Head(toks).text).val>> ELSE <<>>)
       \o C8_Expected(Tail(toks))

\* C8: SpecifierSet::from_str is Ok for every string; the set holds, in input
\* order, the specifiers of the trimmed tokens that parse and nothing of those
\* that fail; when every token fails the set is empty and contains every version
C8_FromStrKeepsParsedTokens ==
  spc # "start" =>
    /\ set_result.ok
    /\ set_result.val.specifiers = C8_Expected(tokens)
    /\ (\A i \in 1..Len(tokens) : ~SpecifierFromStr(tokens[i].text).ok)
         => /\ set_result.val.specifiers = <<>>
            /\ spc = "probed" => probe_result = Return(TRUE)

\* C8 witness: of two padded tokens the first failed and the second is held
C8_Witness ==
  /\ spc = "probed"
  /\ tokens = <<[text |-> "junk", padded |-> TRUE], [text |-> "<2", padded |-> TRUE]>>
  /\ Len(set_result.val.specifiers) = 1
  /\ set_result.val.specifiers[1].operator = "LessThan"
  /\ probe_result = Return(TRUE)

(***************************************************************************)
(* Properties of forward_upstream and of the handlers' ends, under Spec.   *)
(***************************************************************************)
\* C11: when the upstream fetch fails the handler does not abort, and the
\* request ends with a response of the 5xx class
C11_FetchFailureAnswered ==
  upstream_reply = "error"
  => /\ pc # "aborted"
     /\ pc = "done" => res.status \in 500..599

\* the values the request carries for a header name, in order
RECURSIVE ValuesOf(_, _)
ValuesOf(pairs, name) ==
  IF Len(pairs) = 0 THEN <<>>
  ELSE (IF Head(pairs).name = name THEN <<Head(pairs).value>> ELSE <<>>)
       \o ValuesOf(Tail(pairs), name)

\* C12: the request built for the upstream index has no host and no
\* accept-encoding header, and has every other inbound header with all of its
\* values, those of a header that occurs more than once included
C12_HeadersForwarded ==
  upstream_request.some
  => /\ ValuesOf(upstream_request.val.headers, "host") = <<>>
     /\ ValuesOf(upstream_request.val.headers, "accept-encoding") = <<>>
     /\ \A i \in 1..Len(headers) :
          headers[i].name \notin {"host", "accept-encoding"}
          => ValuesOf(upstream_request.val.headers, headers[i].name) = headers[i].values

\* C13: with a policy loaded the handler never aborts, and the request ends
\* with the PackageIndex of the kept releases as its body
C13_FilterLoopCompletes ==
  PolicyLoaded
  => /\ pc # "aborted"
     /\ pc = "done" => res.body = PackageIndexBody(releases)

(***************************************************************************)
(* Properties of the ordering of Version, under SpecOrder.                 *)
(***************************************************************************)
\* C14: the comparison of Version is a consistent order: a < b and b < c give
\* a < c; a < b gives b > a, and so not b < a; a equal to b and b equal to c
\* under the comparison give a equal to c
C14_OrderConsistent ==
  opc = "compared" =>
    /\ (order.ab = "Less" /\ order.bc = "Less") => order.ac = "Less"
    /\ order.ab = "Less" => (order.ba = "Greater" /\ order.ba # "Less")
    /\ (order.ab = "Equal" /\ order.bc = "Equal") => order.ac = "Equal"

\* C14 witness: a < b by the pre-release rule against the release segments,
\* b < c, and a < c
C14_Witness ==
  /\ opc = "compared"
  /\ ver_a.epoch = ver_b.epoch
  /\ ver_a.pre_release.some /\ ~ver_b.pre_release.some
  /\ CmpVec(ver_a.versions, ver_b.versions) = "Greater"
  /\ order.ab = "Less" /\ order.bc = "Less" /\ order.ac = "Less"
====
